---- MODULE Spec2Model ----
(***************************************************************************)
(* Goods service (class Service): validation, component existence check,   *)
(* redaction on read, archiving, single and bulk create.                   *)
(*                                                                         *)
(* JavaScript values are tagged records: k is the result of typeof, and    *)
(* the payload sits in a field of its own per kind (n/half for numbers,    *)
(* s for strings, items for arrays).  A key that an object does not have   *)
(* reads as undefined, so an object is a record with all its keys and      *)
(* Absent stands for "no such key".                                        *)
(***************************************************************************)
EXTENDS Integers, Sequences, FiniteSets, TLC

VARIABLES
    db,       \* the goods table: db[id] is the row of the good with that id
    active,   \* the service calls in progress
    arg,      \* pure functions: the goods handed to the function under check
    ret       \* pure functions: which function ran and what it returned

vars == <<db, active, arg, ret>>

(***************************************************************************)
(* Bounds                                                                  *)
(***************************************************************************)
MaxNum == 1          \* numbers of a candidate range over -1..MaxNum
MaxProps == 1        \* longest properties list of a candidate
MaxComps == 2        \* longest components list of a candidate
MaxList == 2         \* longest list handed to cleanUpMultipleOfGoods
MaxGoods == 3        \* most goods the table comes to hold
MaxBulk == 2         \* longest list handed to a bulk operation

(***************************************************************************)
(* JavaScript values                                                       *)
(***************************************************************************)
Absent == [k |-> "undefined"]
Str(s) == [k |-> "string", s |-> s]
Num(n) == [k |-> "number", n |-> n, half |-> FALSE]
NumHalf(n) == [k |-> "number", n |-> n, half |-> TRUE]     \* n + 0.5
List(items) == [k |-> "object", items |-> items]

TypeOf(x) == x.k

\* x > 0 on a number
Gt0(x) == x.n > 0 \/ (x.n = 0 /\ x.half)

\* mutant: x < 0
Lt0(x) == x.n < 0

\* x <= 0 on a number
Le0(x) == ~Gt0(x)

\* if (x): undefined, '' and 0 are falsy, an array is truthy even when empty
Truthy(x) ==
    CASE x.k = "undefined" -> FALSE
      [] x.k = "string" -> x.s # ""
      [] x.k = "number" -> ~(x.n = 0 /\ ~x.half)
      [] OTHER -> TRUE

\* delete obj[key]
Delete(obj, key) == [obj EXCEPT ![key] = Absent]

Range(s) == {s[i] : i \in DOMAIN s}

\* all sequences over S of length at most n
SeqUpTo(S, n) == UNION {[1..m -> S] : m \in 0..n}

(***************************************************************************)
(* config.good.types                                                       *)
(***************************************************************************)
GoodTypes == <<"raw", "semi-finished", "finished">>

\* mutant: every type is taken for a known one
TypesIncludesAny(x) == TRUE

\* config.good.types.includes(x)
TypesIncludes(x) == \E i \in DOMAIN GoodTypes : x = Str(GoodTypes[i])

(***************************************************************************)
(* Validation                                                              *)
(***************************************************************************)
validateProperties(property) ==
    TypeOf(property.name) = "string" /\ TypeOf(property.value) = "string"

validateComponent(component) ==
    /\ TypeOf(component.id) = "number"
    /\ Gt0(component.id)
    /\ TypeOf(component.quantity) = "number"
    /\ Gt0(component.quantity)

\* the forEach loops visit every entry and clear a flag on a bad one
validateGoodFormat(good) ==
    IF \/ TypeOf(good.name) # "string"
       \/ TypeOf(good.type) # "string"
       \/ TypeOf(good.processTime) # "number"
       \/ TypeOf(good.cost) # "number"
       \/ Le0(good.cost)
       \/ Le0(good.processTime)
       \/ ~TypesIncludes(good.type)
    THEN FALSE
    ELSE IF good.type = Str("raw") /\ TypeOf(good.vendor) # "string"
    THEN FALSE
    ELSE IF good.type = Str("finished")
            /\ (TypeOf(good.price) # "number" \/ Le0(good.price))
    THEN FALSE
    ELSE IF Truthy(good.properties)
            /\ \E i \in DOMAIN good.properties.items :
                   ~validateProperties(good.properties.items[i])
    THEN FALSE
    ELSE IF Truthy(good.components)
            /\ \E i \in DOMAIN good.components.items :
                   ~validateComponent(good.components.items[i])
    THEN FALSE
    ELSE TRUE

(***************************************************************************)
(* Redaction                                                               *)
(***************************************************************************)
\* mutant: the case 'raw' lacks its break and falls through
cleanUpGoodFallThrough(good) ==
    CASE good.type = Str("raw") -> Delete(Delete(good, "price"), "vendor")
      [] good.type = Str("semi-finished") -> Delete(Delete(good, "price"), "vendor")
      [] good.type = Str("finished") -> Delete(good, "vendor")
      [] OTHER -> good

cleanUpGood(good) ==
    CASE good.type = Str("raw") -> Delete(good, "price")
      [] good.type = Str("semi-finished") -> Delete(Delete(good, "price"), "vendor")
      [] good.type = Str("finished") -> Delete(good, "vendor")
      [] OTHER -> good

cleanUpMultipleOfGoods(goods) ==
    [i \in DOMAIN goods |-> cleanUpGood(goods[i])]


(***************************************************************************)
(* The goods repository (GoodModel and its variants): one table, ids       *)
(* assigned in order of insertion, each call atomic.                       *)
(***************************************************************************)
Row(good, id) ==
    [id |-> id, archived |-> FALSE, name |-> good.name, type |-> good.type,
     cost |-> good.cost, processTime |-> good.processTime,
     vendor |-> good.vendor, price |-> good.price,
     properties |-> good.properties, components |-> good.components]

Exists(table, id) == id.k = "number" /\ ~id.half /\ id.n \in DOMAIN table

\* GoodModel.findById(id): the row, or undefined
findById(table, id) == IF Exists(table, id) THEN table[id.n] ELSE Absent

\* GoodModel.getAllGoods()
allGoods(table) == table

\* GoodModel.getByType(type, includeArchived)
getByType(table, type, includeArchived) ==
    SelectSeq(table, LAMBDA row : row.type = type /\ (includeArchived \/ ~row.archived))

\* new <Variant>Model(good).save()
save(table, good) == Append(table, Row(good, Len(table) + 1))

\* GoodModel.archive(id, archive): the table after the update
archive(table, id, flag) ==
    IF Exists(table, id) THEN [table EXCEPT ![id.n].archived = flag] ELSE table

\* GoodModel.archive(id, archive): the number of rows the update matched
archiveCount(table, id) == IF Exists(table, id) THEN 1 ELSE 0

\* what a repository call hands back: a value, or a thrown error
Resolved(value) == [ok |-> TRUE, value |-> value]
Rejected == [ok |-> FALSE]

(***************************************************************************)
(* Result envelopes.  A message built from a template keeps the template   *)
(* and the values interpolated into it.                                    *)
(***************************************************************************)
Direction(flag) == IF flag THEN "archive" ELSE "un-archive"

\* notExist.join(', ')
Join(ids) == ids

\* mutant: the good that was found is taken for a miss
getSingleGoodResultNeverFound(id, res) ==
    IF res.ok
    THEN [status |-> FALSE,
          message |-> [text |-> "Good with id: ${id} not found", id |-> id]]
    ELSE [status |-> FALSE,
          message |-> [text |-> "Failed while getting good with id ${id}", id |-> id]]

\* getSingleGood after GoodModel.findById settled with res
getSingleGoodResult(id, res) ==
    IF res.ok
    THEN IF res.value # Absent
         THEN [status |-> TRUE, message |-> [good |-> cleanUpGood(res.value)]]
         ELSE [status |-> FALSE,
               message |-> [text |-> "Good with id: ${id} not found", id |-> id]]
    ELSE [status |-> FALSE,
          message |-> [text |-> "Failed while getting good with id ${id}", id |-> id]]

\* getAllGoods, getAllGoodsOfType, getAllArchivedGoodsOfType after the query settled
getGoodsResult(fn, type, res) ==
    IF res.ok
    THEN [status |-> TRUE, message |-> [goods |-> cleanUpMultipleOfGoods(res.value)]]
    ELSE CASE fn = "getAllGoods" ->
                [status |-> FALSE, message |-> [text |-> "Failed while getting all goods"]]
           [] fn = "getAllGoodsOfType" ->
                [status |-> FALSE,
                 message |-> [text |-> "Failed while getting goods with type ${type}",
                              type |-> type]]
           [] OTHER ->
                [status |-> FALSE,
                 message |-> [text |-> "Failed while getting archived goods with type ${type}",
                              type |-> type]]

\* mutant: the number of rows matched is not looked at
archiveGoodResultUnchecked(id, flag, res) ==
    IF res.ok
    THEN [status |-> TRUE,
          message |-> [text |-> "${dir} successfull for good with id: ${id}",
                       dir |-> Direction(flag), id |-> id]]
    ELSE [status |-> FALSE,
          message |-> [text |-> "Failed to ${dir} good with id ${id}",
                       dir |-> Direction(flag), id |-> id]]

\* archiveGood after GoodModel.archive settled with res
archiveGoodResult(id, flag, res) ==
    IF res.ok
    THEN IF res.value # 0
         THEN [status |-> TRUE,
               message |-> [text |-> "${dir} successfull for good with id: ${id}",
                            dir |-> Direction(flag), id |-> id]]
         ELSE [status |-> FALSE,
               message |-> [text |-> "Failed to ${dir} good with id ${id}, good not found",
                            dir |-> Direction(flag), id |-> id]]
    ELSE [status |-> FALSE,
          message |-> [text |-> "Failed to ${dir} good with id ${id}",
                       dir |-> Direction(flag), id |-> id]]

\* addSingleGood's four returns
validationFailed(good) ==
    [status |-> FALSE, message |-> [text |-> "Failed while validating good"], good |-> good]
componentsMissing(good, notExist) ==
    [status |-> FALSE,
     message |-> [text |-> "Failed to save component: ${ids} does not exist",
                  ids |-> Join(notExist)],
     good |-> good]
\* mutant: the save is not inside a try, its error leaves addSingleGood as thrown
saveResultUncaught(good, res) ==
    IF res.ok
    THEN [status |-> TRUE, message |-> [text |-> "Successfully saved new good"],
          good |-> good]
    ELSE [thrown |-> "save"]

saveResult(good, res) ==
    IF res.ok
    THEN [status |-> TRUE, message |-> [text |-> "Successfully saved new good"],
          good |-> good]
    ELSE [status |-> FALSE, message |-> [text |-> "Failed while saving good"],
          good |-> good]

(***************************************************************************)
(* One invocation of a service method (a task) between two awaits.         *)
(*   pc      the repository call the task is suspended on, or "done"       *)
(*   lookups checkIfComponentExists: per component entry, "pending" or how *)
(*           its getSingleGood settled                                     *)
(*   calls   the repository calls the task has issued so far, in order     *)
(*   outcome how the task's own repository call (save, archive or query)   *)
(*           settled: "ok", "missing" (no such good) or "error"            *)
(*   id, len0   the id the save was given, and the size of the table when  *)
(*           an addSingleGood started                                      *)
(* A repository call takes effect and settles in one step, and the task    *)
(* then runs on to its next await: what it issues there settles in a later *)
(* step, so every order of completion is a behaviour of the model.         *)
(***************************************************************************)
NoResult == [pending |-> TRUE]
NoCall == [fn |-> "none"]

Task(fn, input, pc, lookups, calls, len0) ==
    [fn |-> fn, input |-> input, pc |-> pc, lookups |-> lookups,
     invalidComponents |-> <<>>, calls |-> calls, outcome |-> "none", id |-> 0,
     len0 |-> len0]

Step(task, result) == [task |-> task, result |-> result]

\* components.map(c => c.id)
onlyId(components) == [j \in DOMAIN components.items |-> components.items[j].id]

\* addSingleGood from "try" on: the save of the good's variant is issued; the
\* switch has no case for another type, and the success return follows at once
addSingleGoodSave(task) ==
    IF TypesIncludes(task.input.type)
    THEN Step([task EXCEPT !.pc = "save", !.calls = Append(@, [op |-> "save"])],
              NoResult)
    ELSE Step([task EXCEPT !.pc = "done"], saveResult(task.input, Resolved(0)))

\* mutant: notExist.length > 1
addSingleGoodCheckedOffByOne(task, notExist) ==
    IF Len(notExist) > 1
    THEN Step([task EXCEPT !.pc = "done"], componentsMissing(task.input, notExist))
    ELSE addSingleGoodSave(task)

\* addSingleGood once checkIfComponentExists has returned notExist
addSingleGoodChecked(task, notExist) ==
    IF Len(notExist) > 0
    THEN Step([task EXCEPT !.pc = "done"], componentsMissing(task.input, notExist))
    ELSE addSingleGoodSave(task)

\* addSingleGood from "if (good.components)" to its first await
addSingleGoodValidated(good, len0) ==
    IF Truthy(good.components)
    THEN LET ids == onlyId(good.components)
             task == Task("addSingleGood", good, "checkIfComponentExists",
                          [j \in DOMAIN ids |-> "pending"],
                          [j \in DOMAIN ids |-> [op |-> "findById", id |-> ids[j]]],
                          len0)
         IN  IF ids = <<>> THEN addSingleGoodChecked(task, <<>>)
             ELSE Step(task, NoResult)
    ELSE addSingleGoodSave(Task("addSingleGood", good, "save", <<>>, <<>>, len0))

\* mutant: the validation is left out
addSingleGoodUnvalidated(good, len0) == addSingleGoodValidated(good, len0)

\* addSingleGood up to its first await
addSingleGoodBegin(good, len0) ==
    IF ~validateGoodFormat(good)
    THEN Step(Task("addSingleGood", good, "done", <<>>, <<>>, len0),
              validationFailed(good))
    ELSE addSingleGoodValidated(good, len0)

\* mutant: the check returns at the first miss instead of awaiting every lookup
checkIfComponentExistsFirstMiss(task, j, res) ==
    LET id == onlyId(task.input.components)[j]
        c == getSingleGoodResult(id, res)
        settled == [task EXCEPT
                      !.lookups[j] = IF ~res.ok THEN "error"
                                     ELSE IF res.value = Absent THEN "missing"
                                     ELSE "found",
                      !.invalidComponents = IF ~c.status THEN Append(@, id) ELSE @]
    IN  IF c.status /\ \E i \in DOMAIN settled.lookups : settled.lookups[i] = "pending"
        THEN Step(settled, NoResult)
        ELSE addSingleGoodChecked(settled, settled.invalidComponents)

\* mutant: only a lookup that answered 'not found' counts, a failed one passes
checkIfComponentExistsIgnoresErrors(task, j, res) ==
    LET id == onlyId(task.input.components)[j]
        c == getSingleGoodResult(id, res)
        settled == [task EXCEPT
                      !.lookups[j] = IF ~res.ok THEN "error"
                                     ELSE IF res.value = Absent THEN "missing"
                                     ELSE "found",
                      !.invalidComponents = IF ~c.status /\ res.ok THEN Append(@, id)
                                            ELSE @]
    IN  IF \E i \in DOMAIN settled.lookups : settled.lookups[i] = "pending"
        THEN Step(settled, NoResult)
        ELSE addSingleGoodChecked(settled, settled.invalidComponents)

\* checkIfComponentExists: the getSingleGood of entry j settled with res
checkIfComponentExists(task, j, res) ==
    LET id == onlyId(task.input.components)[j]
        c == getSingleGoodResult(id, res)
        settled == [task EXCEPT
                      !.lookups[j] = IF ~res.ok THEN "error"
                                     ELSE IF res.value = Absent THEN "missing"
                                     ELSE "found",
                      !.invalidComponents = IF ~c.status THEN Append(@, id) ELSE @]
    IN  IF \E i \in DOMAIN settled.lookups : settled.lookups[i] = "pending"
        THEN Step(settled, NoResult)
        ELSE addSingleGoodChecked(settled, settled.invalidComponents)

\* mutant: the return of the catch block is taken on success too
addSingleGoodSavedAsFailure(task, res) ==
    Step([task EXCEPT !.pc = "done",
                      !.outcome = IF res.ok THEN "ok" ELSE "error",
                      !.id = IF res.ok THEN res.value ELSE 0],
         saveResult(task.input, Rejected))

\* addSingleGood: the save settled with res
addSingleGoodSaved(task, res) ==
    Step([task EXCEPT !.pc = "done",
                      !.outcome = IF res.ok THEN "ok" ELSE "error",
                      !.id = IF res.ok THEN res.value ELSE 0],
         saveResult(task.input, res))

archiveGoodBegin(entry) ==
    Step(Task("archiveGood", entry, "archive", <<>>,
              <<[op |-> "archive", id |-> entry.id, archive |-> entry.archive]>>, 0),
         NoResult)

\* archiveGood: GoodModel.archive settled with res
archiveGoodSettled(task, res) ==
    Step([task EXCEPT !.pc = "done",
                      !.outcome = IF ~res.ok THEN "error"
                                  ELSE IF res.value = 0 THEN "missing" ELSE "ok"],
         archiveGoodResult(task.input.id, task.input.archive, res))

readBegin(fn, input) ==
    Step(Task(fn, input, "read", <<>>, <<[op |-> fn, input |-> input]>>, 0), NoResult)

readResult(fn, input, res) ==
    IF fn = "getSingleGood" THEN getSingleGoodResult(input, res)
    ELSE getGoodsResult(fn, input, res)

\* a read: its query settled with res
readSettled(task, res) ==
    Step([task EXCEPT !.pc = "done",
                      !.outcome = IF ~res.ok THEN "error"
                                  ELSE IF task.fn = "getSingleGood" /\ res.value = Absent
                                  THEN "missing" ELSE "ok"],
         readResult(task.fn, task.input, res))

(***************************************************************************)
(* Service calls.  A call holds one task per element; Promise.all keeps    *)
(* one slot per task and resolves when every slot is filled.               *)
(***************************************************************************)
Request(op, args, steps) ==
    [op |-> op, args |-> args,
     tasks |-> [i \in DOMAIN steps |-> steps[i].task],
     results |-> [i \in DOMAIN steps |-> steps[i].result]]

\* mutant: the values are collected in the order the promises settle
promiseAllPush(results, i, value) ==
    LET first == CHOOSE k \in DOMAIN results :
                     results[k] = NoResult /\ \A m \in 1..(k - 1) : results[m] # NoResult
    IN  [results EXCEPT ![first] = value]

\* mutant: one failed element fails the whole batch
promiseAllFailFast(results, i, value) ==
    IF value.status THEN [results EXCEPT ![i] = value]
    ELSE [k \in DOMAIN results |-> value]

\* Promise.all: the value of the i-th promise goes to the i-th slot
promiseAll(results, i, value) == [results EXCEPT ![i] = value]

Settle(r, i, step) ==
    active' = [active EXCEPT
                 ![r].tasks[i] = step.task,
                 ![r].results = IF step.result = NoResult THEN @
                                ELSE promiseAll(@, i, step.result)]

\* add tasks that may still insert
InFlight ==
    LET Count(req) == Cardinality({i \in DOMAIN req.tasks :
                          req.tasks[i].fn = "addSingleGood" /\ req.tasks[i].pc # "done"})
        Sum[n \in 0..Len(active)] == IF n = 0 THEN 0 ELSE Sum[n - 1] + Count(active[n])
    IN  Sum[Len(active)]

\* room in the table for n more goods
Room(n) == Len(db) + InFlight + n <= MaxGoods

\* no call is in progress
Idle == active = <<>>

\* the clients of the service; each has at most one call in progress
Clients == {"web", "import"}

Start(req) ==
    /\ Len(active) < Cardinality(Clients)
    /\ active' = Append(active, req)
    /\ UNCHANGED <<db, arg, ret>>

(***************************************************************************)
(* Inputs of the service calls                                             *)
(***************************************************************************)
Component(id, quantity) == [id |-> Num(id), quantity |-> Num(quantity)]

SteelRod ==
    [name |-> Str("Steel Rod"), type |-> Str("raw"), cost |-> Num(5),
     processTime |-> Num(1), vendor |-> Str("Acme"), price |-> Absent,
     properties |-> Absent, components |-> Absent]
Chair ==
    [name |-> Str("Chair"), type |-> Str("finished"), cost |-> Num(4),
     processTime |-> Num(2), vendor |-> Str("Acme"), price |-> Num(9),
     properties |-> Absent,
     components |-> List(<<Component(1, 2), Component(2, 1)>>)]
Crate ==
    [name |-> Str(""), type |-> Str("semi-finished"), cost |-> Num(1),
     processTime |-> Num(1), vendor |-> Str("Acme"), price |-> Num(3),
     properties |-> List(<<[name |-> Str("colour"), value |-> Str("red")]>>),
     components |-> List(<<>>)]
Table ==
    [name |-> Str("Table"), type |-> Str("finished"), cost |-> Num(6),
     processTime |-> Num(3), vendor |-> Absent, price |-> Num(12),
     properties |-> Absent,
     components |-> List(<<Component(2, 4), Component(2, 1)>>)]
Stool ==
    [name |-> Str("Stool"), type |-> Str("semi-finished"), cost |-> Num(3),
     processTime |-> Num(1), vendor |-> Absent, price |-> Absent,
     properties |-> Absent,
     components |-> List(<<[id |-> NumHalf(1), quantity |-> Num(1)]>>)]
Broken ==
    [name |-> Str("Broken"), type |-> Str("finished"), cost |-> Num(0),
     processTime |-> Num(1), vendor |-> Absent, price |-> Num(9),
     properties |-> Absent, components |-> List(<<Component(1, 1)>>)]

Widget ==
    [name |-> Str("Widget"), type |-> Str("other"), cost |-> Num(2),
     processTime |-> Num(1), vendor |-> Str("Acme"), price |-> Num(7),
     properties |-> Absent, components |-> Absent]

Goods == {SteelRod, Chair, Crate, Table, Stool, Broken, Widget}
Ids == {Num(n) : n \in 1..MaxGoods}
ArchiveEntries == [id : {Num(1), Num(2)}, archive : BOOLEAN]
Types == {Str(GoodTypes[i]) : i \in DOMAIN GoodTypes} \cup {Str("other")}

Init ==
    /\ db = <<>>
    /\ active = <<>>
    /\ arg = <<>>
    /\ ret = NoCall

(***************************************************************************)
(* The calls: each runs its tasks up to their first await                  *)
(***************************************************************************)
addSingleGood(good) ==
    /\ Room(IF validateGoodFormat(good) THEN 1 ELSE 0)
    /\ Start(Request("addSingleGood", <<good>>, <<addSingleGoodBegin(good, Len(db))>>))

addBulkGoods(goods) ==
    /\ Room(Cardinality({i \in DOMAIN goods : validateGoodFormat(goods[i])}))
    /\ Start(Request("addBulkGoods", goods,
                     [i \in DOMAIN goods |-> addSingleGoodBegin(goods[i], Len(db))]))

archiveGood(id, flag) ==
    LET entry == [id |-> id, archive |-> flag]
    IN  Start(Request("archiveGood", <<entry>>, <<archiveGoodBegin(entry)>>))

archiveMultipleGoods(goods) ==
    Start(Request("archiveMultipleGoods", goods,
                     [i \in DOMAIN goods |-> archiveGoodBegin(goods[i])]))

getAllGoods ==
    Start(Request("getAllGoods", <<Absent>>, <<readBegin("getAllGoods", Absent)>>))

getSingleGood(id) ==
    Start(Request("getSingleGood", <<id>>, <<readBegin("getSingleGood", id)>>))

getAllGoodsOfType(type) ==
    Start(Request("getAllGoodsOfType", <<type>>,
                     <<readBegin("getAllGoodsOfType", type)>>))

getAllArchivedGoodsOfType(type) ==
    Start(Request("getAllArchivedGoodsOfType", <<type>>,
                     <<readBegin("getAllArchivedGoodsOfType", type)>>))

(***************************************************************************)
(* The awaits: a repository call of task i of call r settles               *)
(***************************************************************************)
Suspended(r, i, pc) ==
    /\ r \in DOMAIN active
    /\ i \in DOMAIN active[r].tasks
    /\ active[r].tasks[i].pc = pc

\* mutant: the lookups are answered from the table as it was when the
\* addSingleGood began
ComponentLookupResolvesStale(r, i, j) ==
    /\ Suspended(r, i, "checkIfComponentExists")
    /\ j \in DOMAIN active[r].tasks[i].lookups
    /\ active[r].tasks[i].lookups[j] = "pending"
    /\ LET task == active[r].tasks[i]
           id == onlyId(task.input.components)[j]
       IN  Settle(r, i, checkIfComponentExists(task, j,
                            Resolved(findById(SubSeq(db, 1, task.len0), id))))
    /\ UNCHANGED <<db, arg, ret>>

ComponentLookupResolves(r, i, j) ==
    /\ Suspended(r, i, "checkIfComponentExists")
    /\ j \in DOMAIN active[r].tasks[i].lookups
    /\ active[r].tasks[i].lookups[j] = "pending"
    /\ LET task == active[r].tasks[i]
           id == onlyId(task.input.components)[j]
       IN  Settle(r, i, checkIfComponentExists(task, j, Resolved(findById(db, id))))
    /\ UNCHANGED <<db, arg, ret>>

ComponentLookupRejects(r, i, j) ==
    /\ Suspended(r, i, "checkIfComponentExists")
    /\ j \in DOMAIN active[r].tasks[i].lookups
    /\ active[r].tasks[i].lookups[j] = "pending"
    /\ Settle(r, i, checkIfComponentExists(active[r].tasks[i], j, Rejected))
    /\ UNCHANGED <<db, arg, ret>>

SaveResolves(r, i) ==
    /\ Suspended(r, i, "save")
    /\ db' = save(db, active[r].tasks[i].input)
    /\ Settle(r, i, addSingleGoodSaved(active[r].tasks[i], Resolved(Len(db'))))
    /\ UNCHANGED <<arg, ret>>

SaveRejects(r, i) ==
    /\ Suspended(r, i, "save")
    /\ Settle(r, i, addSingleGoodSaved(active[r].tasks[i], Rejected))
    /\ UNCHANGED <<db, arg, ret>>

ArchiveResolves(r, i) ==
    /\ Suspended(r, i, "archive")
    /\ LET task == active[r].tasks[i]
       IN  /\ db' = archive(db, task.input.id, task.input.archive)
           /\ Settle(r, i, archiveGoodSettled(task,
                                Resolved(archiveCount(db, task.input.id))))
    /\ UNCHANGED <<arg, ret>>

ArchiveRejects(r, i) ==
    /\ Suspended(r, i, "archive")
    /\ Settle(r, i, archiveGoodSettled(active[r].tasks[i], Rejected))
    /\ UNCHANGED <<db, arg, ret>>

\* what the query of a read returns
readQuery(table, fn, input) ==
    CASE fn = "getSingleGood" -> findById(table, input)
      [] fn = "getAllGoods" -> allGoods(table)
      [] fn = "getAllGoodsOfType" -> getByType(table, input, FALSE)
      [] OTHER -> getByType(table, input, TRUE)

\* mutant: the redaction deletes the fields of the stored goods themselves
ReadResolvesInPlace(r, i) ==
    /\ Suspended(r, i, "read")
    /\ LET task == active[r].tasks[i]
       IN  Settle(r, i, readSettled(task, Resolved(readQuery(db, task.fn, task.input))))
    /\ db' = cleanUpMultipleOfGoods(db)
    /\ UNCHANGED <<arg, ret>>

ReadResolves(r, i) ==
    /\ Suspended(r, i, "read")
    /\ LET task == active[r].tasks[i]
       IN  Settle(r, i, readSettled(task, Resolved(readQuery(db, task.fn, task.input))))
    /\ UNCHANGED <<db, arg, ret>>

ReadRejects(r, i) ==
    /\ Suspended(r, i, "read")
    /\ Settle(r, i, readSettled(active[r].tasks[i], Rejected))
    /\ UNCHANGED <<db, arg, ret>>

\* mutant: Promise.race, the call returns as soon as one element has
ReturnedAny(req) == \E i \in DOMAIN req.tasks : req.tasks[i].pc = "done"

\* every task of call r has returned: the call returns to its caller
Returned(req) == \A i \in DOMAIN req.tasks : req.tasks[i].pc = "done"

Return(r) ==
    /\ r \in DOMAIN active
    /\ Returned(active[r])
    /\ active' = [k \in 1..(Len(active) - 1) |-> IF k < r THEN active[k] ELSE active[k + 1]]
    /\ UNCHANGED <<db, arg, ret>>

Next ==
    \/ Idle /\ \E good \in Goods : addSingleGood(good)
    \/ Idle /\ \E goods \in SeqUpTo(Goods, MaxBulk) : addBulkGoods(goods)
    \/ Idle /\ \E entry \in ArchiveEntries : archiveGood(entry.id, entry.archive)
    \/ Idle /\ \E goods \in SeqUpTo(ArchiveEntries, MaxBulk) : archiveMultipleGoods(goods)
    \/ Idle /\ getAllGoods
    \/ Idle /\ \E id \in Ids : getSingleGood(id)
    \/ Idle /\ \E type \in Types : getAllGoodsOfType(type)
    \/ Idle /\ \E type \in Types : getAllArchivedGoodsOfType(type)
    \/ \E r \in DOMAIN active, i \in 1..MaxBulk, j \in 1..MaxComps :
          ComponentLookupResolves(r, i, j)
    \/ \E r \in DOMAIN active, i \in 1..MaxBulk, j \in 1..MaxComps :
          ComponentLookupRejects(r, i, j)
    \/ \E r \in DOMAIN active, i \in 1..MaxBulk : SaveResolves(r, i)
    \/ \E r \in DOMAIN active, i \in 1..MaxBulk : SaveRejects(r, i)
    \/ \E r \in DOMAIN active, i \in 1..MaxBulk : ArchiveResolves(r, i)
    \/ \E r \in DOMAIN active, i \in 1..MaxBulk : ArchiveRejects(r, i)
    \/ \E r \in DOMAIN active, i \in 1..MaxBulk : ReadResolves(r, i)
    \/ \E r \in DOMAIN active, i \in 1..MaxBulk : ReadRejects(r, i)
    \/ \E r \in DOMAIN active : Return(r)

Spec == Init /\ [][Next]_vars

\* Calls of several clients in progress at once: a call is started while others
\* are suspended at an await, and the repository calls of all of them settle in
\* any order.
RaceGoods == {SteelRod, Chair, Crate}
RaceBatches == {<<Chair, SteelRod>>}
RaceEntries == [id : {Num(1)}, archive : BOOLEAN]
RaceArchives == {<<[id |-> Num(1), archive |-> TRUE], [id |-> Num(2), archive |-> FALSE]>>}
RaceTypes == {Str("raw")}

NextInterleaved ==
    \/ \E good \in RaceGoods : addSingleGood(good)
    \/ \E goods \in RaceBatches : addBulkGoods(goods)
    \/ \E entry \in RaceEntries : archiveGood(entry.id, entry.archive)
    \/ \E goods \in RaceArchives : archiveMultipleGoods(goods)
    \/ getAllGoods
    \/ getSingleGood(Num(1))
    \/ \E type \in RaceTypes : getAllGoodsOfType(type)
    \/ \E type \in RaceTypes : getAllArchivedGoodsOfType(type)
    \/ \E r \in DOMAIN active, i \in 1..MaxBulk, j \in 1..MaxComps :
          ComponentLookupResolves(r, i, j)
    \/ \E r \in DOMAIN active, i \in 1..MaxBulk, j \in 1..MaxComps :
          ComponentLookupRejects(r, i, j)
    \/ \E r \in DOMAIN active, i \in 1..MaxBulk : SaveResolves(r, i)
    \/ \E r \in DOMAIN active, i \in 1..MaxBulk : SaveRejects(r, i)
    \/ \E r \in DOMAIN active, i \in 1..MaxBulk : ArchiveResolves(r, i)
    \/ \E r \in DOMAIN active, i \in 1..MaxBulk : ArchiveRejects(r, i)
    \/ \E r \in DOMAIN active, i \in 1..MaxBulk : ReadResolves(r, i)
    \/ \E r \in DOMAIN active, i \in 1..MaxBulk : ReadRejects(r, i)
    \/ \E r \in DOMAIN active : Return(r)

SpecInterleaved == Init /\ [][NextInterleaved]_vars

\* a repository call that is outstanding completes, with a value or an error
Completes ==
    \E r \in DOMAIN active, i \in 1..MaxBulk :
        \/ \E j \in 1..MaxComps :
              ComponentLookupResolves(r, i, j) \/ ComponentLookupRejects(r, i, j)
        \/ SaveResolves(r, i) \/ SaveRejects(r, i)
        \/ ArchiveResolves(r, i) \/ ArchiveRejects(r, i)
        \/ ReadResolves(r, i) \/ ReadRejects(r, i)

\* the calls with a fan-out, on a raw good, a good with two components and a
\* good that fails validation, and the single calls
JoinGoods == {SteelRod, Chair, Broken}

NextJoin ==
    \/ Idle /\ \E good \in JoinGoods : addSingleGood(good)
    \/ Idle /\ \E goods \in SeqUpTo(JoinGoods, MaxBulk) : addBulkGoods(goods)
    \/ Idle /\ \E entry \in ArchiveEntries : archiveGood(entry.id, entry.archive)
    \/ Idle /\ \E goods \in SeqUpTo(ArchiveEntries, MaxBulk) : archiveMultipleGoods(goods)
    \/ Idle /\ getAllGoods
    \/ Idle /\ \E id \in Ids : getSingleGood(id)
    \/ Idle /\ \E type \in Types : getAllGoodsOfType(type)
    \/ Idle /\ \E type \in Types : getAllArchivedGoodsOfType(type)
    \/ \E r \in DOMAIN active, i \in 1..MaxBulk, j \in 1..MaxComps :
          ComponentLookupResolves(r, i, j)
    \/ \E r \in DOMAIN active, i \in 1..MaxBulk, j \in 1..MaxComps :
          ComponentLookupRejects(r, i, j)
    \/ \E r \in DOMAIN active, i \in 1..MaxBulk : SaveResolves(r, i)
    \/ \E r \in DOMAIN active, i \in 1..MaxBulk : SaveRejects(r, i)
    \/ \E r \in DOMAIN active, i \in 1..MaxBulk : ArchiveResolves(r, i)
    \/ \E r \in DOMAIN active, i \in 1..MaxBulk : ArchiveRejects(r, i)
    \/ \E r \in DOMAIN active, i \in 1..MaxBulk : ReadResolves(r, i)
    \/ \E r \in DOMAIN active, i \in 1..MaxBulk : ReadRejects(r, i)
    \/ \E r \in DOMAIN active : Return(r)

\* every repository call eventually completes, and a settled Promise.all resumes
\* its caller
SpecFair ==
    /\ Init
    /\ [][NextJoin]_vars
    /\ WF_vars(Completes)
    /\ WF_vars(\E r \in DOMAIN active : Return(r))

(***************************************************************************)
(* Properties of the service (specification Spec)                          *)
(***************************************************************************)
TaskIds == UNION {{<<r, i>> : i \in DOMAIN active[r].tasks} : r \in DOMAIN active}
AddTaskIds == {x \in TaskIds : active[x[1]].tasks[x[2]].fn = "addSingleGood"}
TaskOf(x) == active[x[1]].tasks[x[2]]
ResultOf(x) == active[x[1]].results[x[2]]

SaveCall == [op |-> "save"]
LookupCalls(good) ==
    IF Truthy(good.components)
    THEN [j \in DOMAIN good.components.items |->
             [op |-> "findById", id |-> good.components.items[j].id]]
    ELSE <<>>
ComponentIds(good) ==
    IF Truthy(good.components) THEN Range(onlyId(good.components)) ELSE {}

\* a good with this id was in the table when it held len rows
ExistedAt(len, id) == id.k = "number" /\ ~id.half /\ id.n \in 1..len

\* row id of the table is the good, as saved
Persisted(good, id) ==
    id \in DOMAIN db /\ [db[id] EXCEPT !.archived = FALSE] = Row(good, id)

Settled(task) == \A j \in DOMAIN task.lookups : task.lookups[j] # "pending"

\* C1: a candidate that validateGoodFormat rejects gets status=false from
\* addSingleGood, which issues no repository call for it (no lookup, no save),
\* and no row of the table is such a candidate.
C1_RejectedIssuesNoCall ==
    /\ \A x \in AddTaskIds :
          ~validateGoodFormat(TaskOf(x).input) =>
              /\ TaskOf(x).pc = "done"
              /\ ResultOf(x).status = FALSE
              /\ TaskOf(x).calls = <<>>
              /\ TaskOf(x).outcome = "none"
              /\ active[x[1]].op = "addSingleGood" => Len(db) = TaskOf(x).len0
    /\ \A good \in Goods, id \in DOMAIN db :
          ~validateGoodFormat(good) => ~Persisted(good, id)

C1_Witness ==
    \E x \in AddTaskIds :
        /\ ~validateGoodFormat(TaskOf(x).input)
        /\ Truthy(TaskOf(x).input.components)
        /\ TaskOf(x).pc = "done"
        /\ ResultOf(x).status = FALSE
        /\ Len(db) > 0

\* C2: the save is issued only once validation has passed and every component
\* lookup of the call has settled with no id missing; a call with a missing id
\* never issues the save and returns status=false naming the missing ids; a call
\* that fails at the validation or the component stage persists nothing.
C2_InsertAfterChecks ==
    \A x \in AddTaskIds :
        LET task == TaskOf(x)
            stageFailure ==
                task.pc = "done"
                /\ ResultOf(x).message.text \in
                       {"Failed while validating good",
                        "Failed to save component: ${ids} does not exist"}
        IN  /\ SaveCall \in Range(task.calls) =>
                  /\ validateGoodFormat(task.input)
                  /\ Settled(task)
                  /\ task.invalidComponents = <<>>
                  /\ task.calls = LookupCalls(task.input) \o <<SaveCall>>
            /\ task.outcome # "none" => SaveCall \in Range(task.calls)
            /\ (task.pc = "done" /\ Len(task.invalidComponents) > 0) =>
                  /\ stageFailure
                  /\ ResultOf(x).status = FALSE
                  /\ ResultOf(x).message.ids = task.invalidComponents
            /\ stageFailure =>
                  /\ ResultOf(x).status = FALSE
                  /\ SaveCall \notin Range(task.calls)
                  /\ task.id = 0
                  /\ active[x[1]].op = "addSingleGood" => Len(db) = task.len0

C2_Witness ==
    \E x \in AddTaskIds :
        /\ TaskOf(x).pc = "done"
        /\ TaskOf(x).lookups = <<"found", "missing">>
        /\ ResultOf(x).status = FALSE
        /\ ResultOf(x).message.ids = <<Num(2)>>

\* the envelope a finished task returned, from how its calls settled
Expected(task) ==
    CASE task.fn = "addSingleGood" ->
            IF ~validateGoodFormat(task.input) THEN validationFailed(task.input)
            ELSE IF task.invalidComponents # <<>>
            THEN componentsMissing(task.input, task.invalidComponents)
            ELSE saveResult(task.input, [ok |-> task.outcome = "ok"])
      [] task.fn = "archiveGood" ->
            archiveGoodResult(task.input.id, task.input.archive,
                              IF task.outcome = "error" THEN Rejected
                              ELSE Resolved(IF task.outcome = "ok" THEN 1 ELSE 0))

Echoes(op, result, input) ==
    IF op = "addBulkGoods" THEN result.good = input
    ELSE result.message.id = input.id /\ result.message.dir = Direction(input.archive)

\* C3: the list addBulkGoods and archiveMultipleGoods return is as long as the
\* input, and its i-th element is the result of the operation on the i-th input
\* element, in whatever order the repository calls settled.
C3_BulkResultsInInputOrder ==
    \A r \in DOMAIN active :
        active[r].op \in {"addBulkGoods", "archiveMultipleGoods"} =>
            /\ Len(active[r].results) = Len(active[r].args)
            /\ \A i \in DOMAIN active[r].results :
                  IF active[r].tasks[i].pc = "done"
                  THEN /\ active[r].results[i] = Expected(active[r].tasks[i])
                       /\ Echoes(active[r].op, active[r].results[i], active[r].args[i])
                  ELSE active[r].results[i] = NoResult

C3_Witness ==
    \E r \in DOMAIN active :
        /\ active[r].op = "addBulkGoods"
        /\ Returned(active[r])
        /\ Len(active[r].args) = 2
        /\ active[r].args[1] # active[r].args[2]
        /\ active[r].tasks[2].id > 0
        /\ active[r].tasks[1].id > active[r].tasks[2].id

\* C4: in addBulkGoods no element waits on or is undone by a sibling: an
\* unfinished element always has a repository call of its own outstanding, and
\* an element that is valid, whose components were all found and whose save
\* succeeded is in the table and reported status=true, whatever became of the
\* other elements.
C4_BulkFailuresIsolated ==
    \A r \in DOMAIN active :
        active[r].op = "addBulkGoods" =>
            \A i \in DOMAIN active[r].tasks :
                LET task == active[r].tasks[i]
                IN  /\ task.pc # "done" =>
                          \/ task.pc = "save"
                          \/ task.pc = "checkIfComponentExists" /\ ~Settled(task)
                    /\ (validateGoodFormat(task.input) /\ Settled(task)
                        /\ \A j \in DOMAIN task.lookups : task.lookups[j] = "found") =>
                          SaveCall \in Range(task.calls)
                    /\ task.outcome = "ok" =>
                          /\ task.pc = "done"
                          /\ active[r].results[i].status = TRUE
                          /\ Persisted(task.input, task.id)

C4_Witness ==
    \E r \in DOMAIN active :
        /\ active[r].op = "addBulkGoods"
        /\ Returned(active[r])
        /\ Len(active[r].args) = 2
        /\ active[r].results[1].status = FALSE
        /\ active[r].results[2].status = TRUE
        /\ active[r].tasks[2].lookups = <<"found", "found">>

\* C5: with no repository error, checkIfComponentExists returns only after
\* every lookup has settled, and returns exactly the referenced ids without a
\* good: every id still without a good is in the result, no id that had a good
\* when the call began is, and the result holds the ids whose lookup missed.
C5_ResolverReturnsMissingIds ==
    \A x \in AddTaskIds :
        LET task == TaskOf(x)
            ids == ComponentIds(task.input)
            result == Range(task.invalidComponents)
        IN  (validateGoodFormat(task.input) /\ task.pc \in {"save", "done"}) =>
                /\ Settled(task)
                /\ (\A j \in DOMAIN task.lookups : task.lookups[j] # "error") =>
                      /\ {id \in ids : ~Exists(db, id)} \subseteq result
                      /\ result \subseteq {id \in ids : ~ExistedAt(task.len0, id)}
                      /\ result = {onlyId(task.input.components)[j] :
                                     j \in {k \in DOMAIN task.lookups :
                                              task.lookups[k] = "missing"}}

C5_Witness ==
    \E x \in AddTaskIds :
        /\ TaskOf(x).pc = "done"
        /\ TaskOf(x).lookups = <<"missing", "missing">>
        /\ TaskOf(x).input = Chair
        /\ TaskOf(x).invalidComponents = <<Num(2), Num(1)>>


\* C6 (as claimed): an id is reported invalid only when no good has it. An id
\* whose good was in the table when the call began is never in the list
\* checkIfComponentExists collects.
C6_OnlyMissesReported ==
    \A x \in AddTaskIds :
        \A id \in Range(TaskOf(x).invalidComponents) : ~ExistedAt(TaskOf(x).len0, id)

\* an archiveGood of call r, element i, settles in this step on an id no good has
ArchiveSettles(r, i) ==
    /\ active[r].tasks[i].pc = "archive"
    /\ ~Exists(db, active[r].tasks[i].input.id)
    /\ r \in DOMAIN active'
    /\ active'[r].tasks[i].pc = "done"

NotFoundText == "Failed to ${dir} good with id ${id}, good not found"
FailedText == "Failed to ${dir} good with id ${id}"

\* C7 (as claimed): archiveGood on an id no good has returns status=false with
\* the 'good not found' message naming the direction and leaves the table as
\* it was.
C7_MissingIdAnswersNotFound ==
    [][\A r \in DOMAIN active : \A i \in DOMAIN active[r].tasks :
          ArchiveSettles(r, i) =>
              /\ active'[r].results[i].status = FALSE
              /\ active'[r].results[i].message.text = NotFoundText
              /\ active'[r].results[i].message.dir
                     = Direction(active[r].tasks[i].input.archive)
              /\ db' = db]_vars

\* C7 (amended): archiveGood on an id no good has returns status=false, never
\* status=true, with a message naming the direction, and leaves the table as it
\* was; the message is the 'good not found' one when the repository call
\* completes and the plain failure one when it throws.
C7_MissingIdNeverArchives ==
    [][\A r \in DOMAIN active : \A i \in DOMAIN active[r].tasks :
          ArchiveSettles(r, i) =>
              /\ active'[r].results[i].status = FALSE
              /\ active'[r].results[i].message.text
                     = IF active'[r].tasks[i].outcome = "error" THEN FailedText
                       ELSE NotFoundText
              /\ active'[r].results[i].message.dir
                     = Direction(active[r].tasks[i].input.archive)
              /\ db' = db]_vars

C7_Witness ==
    \E x \in TaskIds :
        /\ TaskOf(x).fn = "archiveGood"
        /\ TaskOf(x).outcome = "missing"
        /\ ResultOf(x).status = FALSE
        /\ ResultOf(x).message.text = NotFoundText
        /\ \E id \in DOMAIN db : db[id].archived

\* a read is issued or settles in this step: one of the four read operations,
\* or a getSingleGood of checkIfComponentExists
ReadStep ==
    \/ /\ active = <<>>
       /\ active' # <<>>
       /\ active'[1].op \in {"getAllGoods", "getSingleGood", "getAllGoodsOfType",
                             "getAllArchivedGoodsOfType"}
    \/ \E r \in DOMAIN active : \E i \in DOMAIN active[r].tasks :
          /\ active[r].tasks[i].pc \in {"read", "checkIfComponentExists"}
          /\ r \in DOMAIN active'
          /\ active'[r].tasks[i] # active[r].tasks[i]

\* C9: a read (getAllGoods, getSingleGood, getAllGoodsOfType,
\* getAllArchivedGoodsOfType, redaction included) leaves every row of the table
\* as it was: a stored raw good keeps its vendor, a stored finished good its price.
C9_ReadsLeaveTableUnchanged ==
    [][ReadStep =>
          /\ db' = db
          /\ \A id \in DOMAIN db' :
                /\ db'[id].type = Str("raw") => db'[id].vendor # Absent
                /\ db'[id].type = Str("finished") => db'[id].price # Absent]_vars

C9_Witness ==
    \E x \in TaskIds :
        /\ TaskOf(x).fn = "getSingleGood"
        /\ TaskOf(x).outcome = "ok"
        /\ ResultOf(x).message.good.type = Str("finished")
        /\ ResultOf(x).message.good.vendor = Absent
        /\ db[TaskOf(x).input.n].vendor # Absent

\* a repository call of the task has failed
RepositoryFailed(task) ==
    \/ task.outcome = "error"
    \/ \E j \in DOMAIN task.lookups : task.lookups[j] = "error"

\* C13: every operation whose repository call fails returns an envelope with
\* status=false for that element, a failed component lookup inside addSingleGood
\* and a failed element of a bulk operation included; what a task hands back is
\* always an envelope, never a thrown error.
C13_FailuresBecomeEnvelopes ==
    \A x \in TaskIds :
        IF TaskOf(x).pc = "done"
        THEN /\ "status" \in DOMAIN ResultOf(x)
             /\ "message" \in DOMAIN ResultOf(x)
             /\ ResultOf(x).status \in BOOLEAN
             /\ RepositoryFailed(TaskOf(x)) => ResultOf(x).status = FALSE
        ELSE ResultOf(x) = NoResult

C13_Witness ==
    \E r \in DOMAIN active :
        /\ active[r].op = "addBulkGoods"
        /\ Returned(active[r])
        /\ Len(active[r].args) = 2
        /\ \E j \in DOMAIN active[r].tasks[1].lookups :
              active[r].tasks[1].lookups[j] = "error"
        /\ active[r].tasks[2].outcome = "error"
        /\ active[r].results[1].status = FALSE
        /\ active[r].results[2].status = FALSE

\* a getSingleGood of a client has returned, on the id of a raw good
RawGoodRead(task) ==
    /\ task.fn = "getSingleGood"
    /\ task.pc = "done"
    /\ Exists(db, task.input)
    /\ db[task.input.n].type = Str("raw")

\* C15 (as claimed): once addSingleGood has saved a raw candidate (name 'Steel
\* Rod', cost 5, processTime 1, vendor 'Acme'), a getSingleGood on the id it was
\* given returns status=true with the good: type raw, no price field, its
\* vendor still there.
C15_RawGoodAlwaysReadBack ==
    \A x \in TaskIds :
        RawGoodRead(TaskOf(x)) =>
            /\ ResultOf(x).status = TRUE
            /\ ResultOf(x).message.good.type = Str("raw")
            /\ ResultOf(x).message.good.price = Absent
            /\ ResultOf(x).message.good.vendor = db[TaskOf(x).input.n].vendor

\* C15 (amended): as claimed when the repository call of the getSingleGood
\* completes; when that call throws, the getSingleGood returns status=false.
C15_RawGoodReadBack ==
    \A x \in TaskIds :
        RawGoodRead(TaskOf(x)) =>
            IF TaskOf(x).outcome = "error"
            THEN ResultOf(x).status = FALSE
            ELSE /\ ResultOf(x).status = TRUE
                 /\ ResultOf(x).message.good = cleanUpGood(db[TaskOf(x).input.n])
                 /\ ResultOf(x).message.good.id = TaskOf(x).input.n
                 /\ ResultOf(x).message.good.type = Str("raw")
                 /\ ResultOf(x).message.good.price = Absent
                 /\ ResultOf(x).message.good.vendor = db[TaskOf(x).input.n].vendor
                 /\ TypeOf(ResultOf(x).message.good.vendor) = "string"

C15_Witness ==
    \E x \in TaskIds :
        /\ TaskOf(x).fn = "getSingleGood"
        /\ TaskOf(x).pc = "done"
        /\ Persisted(SteelRod, TaskOf(x).input.n)
        /\ ResultOf(x).status = TRUE
        /\ ResultOf(x).message.good.name = Str("Steel Rod")
        /\ ResultOf(x).message.good.price = Absent
        /\ ResultOf(x).message.good.vendor = Str("Acme")

\* C16: every good in the table has one of the three types, cost > 0 and
\* processTime > 0, a text vendor if it is raw and a price > 0 if it is
\* finished; a candidate of another type ends with status=false and no row.
C16_PersistedGoodsValid ==
    /\ \A id \in DOMAIN db :
          /\ db[id].type \in {Str("raw"), Str("semi-finished"), Str("finished")}
          /\ TypeOf(db[id].cost) = "number" /\ Gt0(db[id].cost)
          /\ TypeOf(db[id].processTime) = "number" /\ Gt0(db[id].processTime)
          /\ db[id].type = Str("raw") => TypeOf(db[id].vendor) = "string"
          /\ db[id].type = Str("finished") =>
                TypeOf(db[id].price) = "number" /\ Gt0(db[id].price)
    /\ \A x \in AddTaskIds :
          TaskOf(x).input.type \notin
                  {Str("raw"), Str("semi-finished"), Str("finished")} =>
              /\ TaskOf(x).calls = <<>>
              /\ TaskOf(x).pc = "done"
              /\ ResultOf(x).status = FALSE

C16_Witness ==
    /\ \E id \in DOMAIN db : db[id].type = Str("raw")
    /\ \E id \in DOMAIN db : db[id].type = Str("finished")
    /\ \E x \in AddTaskIds :
          /\ TaskOf(x).input = Widget
          /\ TaskOf(x).pc = "done"
          /\ ResultOf(x).status = FALSE

\* no value occurs twice in the sequence
NoRepeat(seq) == \A i, j \in DOMAIN seq : seq[i] = seq[j] => i = j

\* C17 (as claimed): checkIfComponentExists issues one lookup per distinct
\* referenced id, and a missing id is once in the list it returns and once in
\* addSingleGood's failure message, also when several entries carry that id.
C17_OneLookupPerDistinctId ==
    \A x \in AddTaskIds :
        LET task == TaskOf(x)
        IN  /\ NoRepeat(SelectSeq(task.calls, LAMBDA c : c.op = "findById"))
            /\ NoRepeat(task.invalidComponents)
            /\ (task.pc = "done" /\ task.invalidComponents # <<>>) =>
                  NoRepeat(ResultOf(x).message.ids)

\* a call returns in this step: each of its tasks had returned, with every
\* lookup settled and every slot of the combined result filled
JoinStep ==
    Len(active') < Len(active) =>
        \E r \in DOMAIN active :
            /\ active' = [k \in 1..(Len(active) - 1) |->
                             IF k < r THEN active[k] ELSE active[k + 1]]
            /\ \A i \in DOMAIN active[r].tasks :
                  /\ active[r].tasks[i].pc = "done"
                  /\ Settled(active[r].tasks[i])
                  /\ active[r].results[i] # NoResult

\* a checkIfComponentExists returns in this step: every lookup of it has settled
LookupJoinStep ==
    \A r \in DOMAIN active : \A i \in DOMAIN active[r].tasks :
        (/\ active[r].tasks[i].pc = "checkIfComponentExists"
         /\ Len(active') = Len(active)
         /\ active'[r].tasks[i].pc # "checkIfComponentExists") =>
            /\ Settled(active'[r].tasks[i])
            /\ Len(active'[r].tasks[i].lookups)
                   = Len(active[r].tasks[i].input.components.items)

\* C18: addBulkGoods, archiveMultipleGoods and checkIfComponentExists produce
\* their combined result only once every repository call they issued has
\* completed, and, every repository call completing in the end, a call that was
\* started returns.
C18_JoinThenReturn ==
    /\ [][JoinStep /\ LookupJoinStep]_vars
    /\ (active # <<>>) ~> (active = <<>>)

C18_Witness ==
    \E r \in DOMAIN active :
        /\ active[r].op = "addBulkGoods"
        /\ Returned(active[r])
        /\ Len(active[r].args) = 2
        /\ active[r].tasks[1].lookups = <<"found", "found">>
        /\ active[r].tasks[1].outcome = "ok"
        /\ active[r].tasks[2].outcome = "ok"
        /\ active[r].tasks[2].id < active[r].tasks[1].id

\* task i of call r takes a step from pc to "done" in this step
Finishes(r, i, pc) ==
    /\ active[r].tasks[i].pc = pc
    /\ Len(active') = Len(active)
    /\ active'[r].tasks[i].pc = "done"

\* goods stay, and keep their id, their type and every field but archived
GoodsStay ==
    /\ Len(db') >= Len(db)
    /\ \A id \in DOMAIN db :
          /\ db'[id].type = db[id].type
          /\ [db'[id] EXCEPT !.archived = db[id].archived] = db[id]

\* a good appears only as the input of an addSingleGood whose save succeeds
\* in this step and which reports status=true
CreatedByAdd ==
    Len(db') > Len(db) =>
        /\ Len(db') = Len(db) + 1
        /\ \E r \in DOMAIN active : \E i \in DOMAIN active[r].tasks :
              /\ active[r].op \in {"addSingleGood", "addBulkGoods"}
              /\ active[r].tasks[i].fn = "addSingleGood"
              /\ Finishes(r, i, "save")
              /\ active'[r].tasks[i].outcome = "ok"
              /\ active'[r].results[i].status = TRUE
              /\ db'[Len(db')] = Row(active[r].tasks[i].input, Len(db'))

\* the archived flag of a good changes only as an archiveGood on its id settles
\* in this step, to the value that call asked for, with status=true
ArchivedByArchive ==
    \A id \in DOMAIN db :
        db'[id].archived # db[id].archived =>
            \E r \in DOMAIN active : \E i \in DOMAIN active[r].tasks :
                /\ active[r].op \in {"archiveGood", "archiveMultipleGoods"}
                /\ active[r].tasks[i].fn = "archiveGood"
                /\ active[r].tasks[i].input.id = Num(id)
                /\ Finishes(r, i, "archive")
                /\ db'[id].archived = active[r].tasks[i].input.archive
                /\ active'[r].results[i].status = TRUE

\* an archiveGood on the id of a good settles in this step
ArchiveOfGoodSettles(r, i) ==
    /\ active[r].tasks[i].pc = "archive"
    /\ Exists(db, active[r].tasks[i].input.id)
    /\ Finishes(r, i, "archive")

\* C14 (as claimed): goods appear only through a successful addSingleGood, never
\* disappear, never change type; the archived flag changes only through
\* archiveGood, which on the id of a good sets it to the requested value and
\* reports status=true.
C14_LifecycleArchiveAlwaysSucceeds ==
    [][/\ GoodsStay
       /\ CreatedByAdd
       /\ ArchivedByArchive
       /\ \A r \in DOMAIN active : \A i \in DOMAIN active[r].tasks :
             ArchiveOfGoodSettles(r, i) =>
                 /\ db'[active[r].tasks[i].input.id.n].archived
                        = active[r].tasks[i].input.archive
                 /\ active'[r].results[i].status = TRUE]_vars

\* C14 (amended): as claimed, except that archiveGood on the id of a good sets
\* the flag and reports status=true when its repository call completes, and
\* leaves the flag and reports status=false when that call throws.
C14_Lifecycle ==
    [][/\ GoodsStay
       /\ CreatedByAdd
       /\ ArchivedByArchive
       /\ \A r \in DOMAIN active : \A i \in DOMAIN active[r].tasks :
             ArchiveOfGoodSettles(r, i) =>
                 IF active'[r].tasks[i].outcome = "error"
                 THEN /\ db' = db
                      /\ active'[r].results[i].status = FALSE
                 ELSE /\ db'[active[r].tasks[i].input.id.n].archived
                             = active[r].tasks[i].input.archive
                      /\ active'[r].results[i].status = TRUE
                      /\ active'[r].results[i].message.dir
                             = Direction(active[r].tasks[i].input.archive)]_vars

\* a good was archived and un-archived again while two calls were in progress
C14_Witness ==
    /\ Len(active) = 2
    /\ \E i \in DOMAIN active[1].tasks :
          /\ active[1].tasks[i].fn = "archiveGood"
          /\ active[1].tasks[i].outcome = "ok"
          /\ active[1].tasks[i].input.archive = FALSE
          /\ db[active[1].tasks[i].input.id.n].archived = FALSE
    /\ \E i \in DOMAIN active[2].tasks :
          /\ active[2].tasks[i].fn = "addSingleGood"
          /\ active[2].tasks[i].outcome = "ok"
    /\ \E id \in DOMAIN db : db[id].archived

\* lookup j of task i of call r settles in this step
LookupSettles(r, i, j) ==
    /\ active[r].tasks[i].pc = "checkIfComponentExists"
    /\ active[r].tasks[i].lookups[j] = "pending"
    /\ Len(active') = Len(active)
    /\ active'[r].tasks[i].lookups[j] # "pending"

\* C19: a lookup of id k answers by the table of the moment it completes: found
\* once the good that gets id k has been inserted, missing before. So an
\* addSingleGood(A) referencing k, running beside the create of the good B that
\* gets id k, ends persisted (all lookups found) or rejected naming k (its
\* lookup missed), by the interleaving; B, which has no lookup of its own, ends
\* by its own save alone.
C19_CheckThenCreateRace ==
    /\ [][\A r \in DOMAIN active : \A i \in DOMAIN active[r].tasks :
            \A j \in DOMAIN active[r].tasks[i].lookups :
               LookupSettles(r, i, j) =>
                  LET id == onlyId(active[r].tasks[i].input.components)[j]
                      answer == active'[r].tasks[i].lookups[j]
                  IN  /\ answer = "found" => Exists(db, id)
                      /\ answer = "missing" => ~Exists(db, id)
                      /\ db' = db]_vars
    /\ [](\A x \in AddTaskIds :
            LET task == TaskOf(x)
            IN  (validateGoodFormat(task.input) /\ task.pc = "done") =>
                   /\ ResultOf(x) = Expected(task)
                   /\ task.outcome = "ok" <=> Persisted(task.input, task.id)
                   /\ task.outcome = "ok" =>
                         \A j \in DOMAIN task.lookups : task.lookups[j] = "found"
                   /\ task.lookups = <<>> =>
                         ResultOf(x) = saveResult(task.input,
                                                  [ok |-> task.outcome = "ok"])
                   /\ (\E j \in DOMAIN task.lookups : task.lookups[j] # "found") =>
                         /\ ResultOf(x).status = FALSE
                         /\ task.outcome = "none"
                         /\ \A j \in DOMAIN task.lookups :
                               task.lookups[j] # "found" =>
                                  onlyId(task.input.components)[j]
                                      \in Range(ResultOf(x).message.ids))

\* two addSingleGood of the same good A, begun when good 2 did not exist, beside
\* the create of the good B that got id 2: one was rejected naming 2, the other
\* was persisted
C19_Witness ==
    \E a1 \in AddTaskIds, a2 \in AddTaskIds, b \in AddTaskIds :
        /\ TaskOf(a1).input = Chair /\ TaskOf(a2).input = Chair
        /\ TaskOf(a1).len0 = 1 /\ TaskOf(a2).len0 = 1 /\ TaskOf(b).len0 = 1
        /\ TaskOf(b).input = SteelRod
        /\ TaskOf(b).outcome = "ok" /\ TaskOf(b).id = 2
        /\ ResultOf(b).status = TRUE
        /\ TaskOf(a1).pc = "done"
        /\ TaskOf(a1).lookups = <<"found", "missing">>
        /\ ResultOf(a1).status = FALSE
        /\ ResultOf(a1).message.ids = <<Num(2)>>
        /\ TaskOf(a2).lookups = <<"found", "found">>
        /\ TaskOf(a2).outcome = "ok"
        /\ Persisted(Chair, TaskOf(a2).id)

\* C20: in every state, whatever the interleaving of creates, archives and
\* reads and whichever repository calls failed, each component id of each good
\* in the table is the id of a good in the table, archived or not.
C20_ComponentsExist ==
    \A id \in DOMAIN db :
        \A c \in ComponentIds(db[id]) : Exists(db, c)

C20_Witness ==
    /\ Len(active) = 2
    /\ \E id \in DOMAIN db :
          /\ db[id].name = Str("Chair")
          /\ \E c \in ComponentIds(db[id]) : db[c.n].archived
          /\ \E c \in ComponentIds(db[id]) : ~db[c.n].archived
    /\ \E x \in AddTaskIds :
          /\ TaskOf(x).pc = "done"
          /\ \E j \in DOMAIN TaskOf(x).lookups : TaskOf(x).lookups[j] = "error"

(***************************************************************************)
(* The synchronous functions on their own: validateGoodFormat, cleanUpGood *)
(* and cleanUpMultipleOfGoods applied to goods drawn from bounded sets.    *)
(***************************************************************************)
NumberValues == {Absent} \cup {Num(n) : n \in -1..MaxNum}
NameValues == {Absent, Str(""), Str("Steel Rod")}
TypeValues == {Absent, Str("raw"), Str("semi-finished"), Str("finished"), Str("other")}
VendorValues == {Absent, Str("Acme")}
PropertyValues ==
    {[name |-> Str("colour"), value |-> Str("")],
     [name |-> Absent, value |-> Num(1)]}
ComponentValues ==
    {[id |-> Num(1), quantity |-> Num(1)],
     [id |-> Num(0), quantity |-> Num(1)],
     [id |-> NumHalf(1), quantity |-> Num(1)],
     [id |-> Num(1), quantity |-> Num(0)]}
ListValues(S, n) == {Absent} \cup {List(items) : items \in SeqUpTo(S, n)}

Candidates ==
    [name : NameValues, type : TypeValues, cost : NumberValues,
     processTime : NumberValues, vendor : VendorValues, price : NumberValues,
     properties : ListValues(PropertyValues, MaxProps),
     components : ListValues(ComponentValues, MaxComps)]

\* goods as the reads hand them to the redaction: one per type, all fields set
Sample(type) ==
    [name |-> Str("Steel Rod"), type |-> type, cost |-> Num(1),
     processTime |-> Num(1), vendor |-> Str("Acme"), price |-> Num(1),
     properties |-> Absent, components |-> Absent]
Samples == {Sample(t) : t \in TypeValues \ {Absent}}

InitPure ==
    /\ db = <<>>
    /\ active = <<>>
    /\ \/ \E g \in Candidates : arg = <<g>>
       \/ arg \in SeqUpTo(Samples, MaxList)
    /\ ret = NoCall

CallValidateGoodFormat ==
    /\ ret = NoCall
    /\ Len(arg) = 1
    /\ ret' = [fn |-> "validateGoodFormat", v |-> validateGoodFormat(arg[1])]
    /\ UNCHANGED <<db, active, arg>>

CallCleanUpGood ==
    /\ ret = NoCall
    /\ Len(arg) = 1
    /\ ret' = [fn |-> "cleanUpGood", v |-> cleanUpGood(arg[1])]
    /\ UNCHANGED <<db, active, arg>>

CallCleanUpMultipleOfGoods ==
    /\ ret = NoCall
    /\ ret' = [fn |-> "cleanUpMultipleOfGoods", v |-> cleanUpMultipleOfGoods(arg)]
    /\ UNCHANGED <<db, active, arg>>

NextPure ==
    \/ CallValidateGoodFormat
    \/ CallCleanUpGood
    \/ CallCleanUpMultipleOfGoods

SpecPure == InitPure /\ [][NextPure]_vars

(***************************************************************************)
(* Properties of the synchronous functions (specification SpecPure)        *)
(***************************************************************************)
\* the fields the redaction removes, per type
Removed(type) ==
    CASE type = Str("raw") -> {"price"}
      [] type = Str("semi-finished") -> {"price", "vendor"}
      [] type = Str("finished") -> {"vendor"}
      [] OTHER -> {}

Redacted(before, after) ==
    /\ DOMAIN after = DOMAIN before
    /\ \A f \in DOMAIN before :
          after[f] = IF f \in Removed(before.type) THEN Absent ELSE before[f]

\* C8: cleanUpGood removes the fields of the good's type (raw: price;
\* semi-finished: price and vendor; finished: vendor) and returns every other
\* field as it was; cleanUpMultipleOfGoods does so element by element, keeping
\* length and order.
C8_RedactionPerType ==
    /\ ret.fn = "cleanUpGood" => Redacted(arg[1], ret.v)
    /\ ret.fn = "cleanUpMultipleOfGoods" =>
          /\ Len(ret.v) = Len(arg)
          /\ \A i \in DOMAIN arg : Redacted(arg[i], ret.v[i])

C8_Witness ==
    /\ ret.fn = "cleanUpMultipleOfGoods"
    /\ Len(arg) = 2
    /\ arg[1].type = Str("raw") /\ arg[1].price # Absent
    /\ arg[2].type = Str("finished") /\ arg[2].vendor # Absent
    /\ ret.v[1].price = Absent /\ ret.v[1].vendor # Absent
    /\ ret.v[2].vendor = Absent /\ ret.v[2].price # Absent

IsNumber(x) == x.k = "number"
IsText(x) == x.k = "string"
Positive(x) == IsNumber(x) /\ (x.n > 0 \/ (x.n = 0 /\ x.half))
NotPositive(x) == IsNumber(x) /\ ~Positive(x)
KnownType(x) == x \in {Str("raw"), Str("semi-finished"), Str("finished")}
Items(x) == IF x.k = "object" THEN Range(x.items) ELSE {}

\* the candidates C10 says are rejected
MustReject(good) ==
    \/ NotPositive(good.cost)
    \/ NotPositive(good.processTime)
    \/ ~KnownType(good.type)
    \/ good.type = Str("raw") /\ ~IsText(good.vendor)
    \/ good.type = Str("finished") /\ ~Positive(good.price)

\* the candidates C10 says are accepted
WellFormed(good) ==
    /\ IsText(good.name)
    /\ KnownType(good.type)
    /\ Positive(good.cost)
    /\ Positive(good.processTime)
    /\ good.type = Str("raw") => IsText(good.vendor)
    /\ good.type = Str("finished") => Positive(good.price)
    /\ \A p \in Items(good.properties) : IsText(p.name) /\ IsText(p.value)
    /\ \A c \in Items(good.components) :
          Positive(c.id) /\ ~c.id.half /\ Positive(c.quantity)

\* C10: validateGoodFormat returns false for a candidate with cost <= 0,
\* processTime <= 0, a type outside the three, type raw without a text vendor
\* or type finished without a price > 0, and true for a well-formed candidate
\* of each of the three types.
C10_ValidateRejectsAndAccepts ==
    ret.fn = "validateGoodFormat" =>
        /\ MustReject(arg[1]) => ret.v = FALSE
        /\ WellFormed(arg[1]) => ret.v = TRUE

C10_Witness ==
    /\ ret.fn = "validateGoodFormat"
    /\ ret.v = TRUE
    /\ arg[1].type = Str("finished")
    /\ arg[1].price = Num(1)
    /\ arg[1].properties # Absent /\ arg[1].properties.items # <<>>
    /\ arg[1].components # Absent /\ Len(arg[1].components.items) = 2

\* C11 (as claimed): validateGoodFormat returns false for a candidate whose name
\* is not a non-empty text value, the empty string included.
C11_EmptyNameRejected ==
    ret.fn = "validateGoodFormat" =>
        (~(IsText(arg[1].name) /\ arg[1].name # Str("")) => ret.v = FALSE)

\* C12 (as claimed): validateGoodFormat returns false for a candidate with a
\* component, at any position, whose id is not a positive integer-valued number
\* (zero, negative or a non-integer such as 1.5) or whose quantity is not a
\* positive number.
C12_BadComponentRejected ==
    ret.fn = "validateGoodFormat" =>
        ((\E c \in Items(arg[1].components) :
              \/ ~Positive(c.id)
              \/ c.id.half
              \/ ~Positive(c.quantity)) => ret.v = FALSE)

====
